---- MODULE Spec2Model ----
(***************************************************************************)
(* Chronos job scheduler: the planner (services/jobScheduler.js behind the *)
(* job controller), the ready queues (queues/jobQueue.js on BullMQ) and    *)
(* the worker pipeline (workers/jobWorker.js), for one job row.            *)
(*                                                                         *)
(* A planner request is one action (the controller's checks followed by    *)
(* the service method).  processJob is split at the awaits whose order     *)
(* against other tasks can be observed: steps that touch only the          *)
(* attempt's own Execution row, the log or the notifier are merged with    *)
(* the next step that reads or writes the job row or the queue.            *)
(***************************************************************************)
EXTENDS Integers, Sequences, FiniteSets, TLC

\* ---------------------------------------------------------------- bounds
MaxInFlight == 2      \* processJob invocations in flight at once
MaxExecutions == 3    \* Execution rows created in one behaviour
MaxFaults == 1        \* store operations that fail in one behaviour
MaxTime == 2          \* clock ticks (minutes) in one behaviour
MaxRetriesBound == 4  \* largest maxRetries a request carries
MaxPerWorker == 1     \* concurrency option of each Worker (5 in the code)
MaxLen == 4           \* longest array handed to paginate
MaxPage == 3          \* largest page asked of paginate
MaxLimit == 3         \* largest limit asked of paginate
MaxAttempts == 4      \* largest maxRetries handed to retryWithBackoff

\* ------------------------------------------------------- program constants
NULL == -1
maxRetryAttempts == 3
retryDelayMs == 5000
defaultRetryDelay == 5000

JobStatuses == {"active", "paused", "completed", "failed", "cancelled"}
TerminalStatuses == {"completed", "failed", "cancelled"}
ScheduleTypes == {"immediate", "scheduled", "recurring"}
ExecutionStatuses == {"pending", "running", "completed", "failed", "cancelled", "timeout"}
ExecutionTerminal == {"completed", "failed", "cancelled", "timeout"}

\* Request inputs.  A job name is any non-empty text and the time zone any
\* text (the create rules check neither against the queue's naming).
Names == {"nightly", "recurring-job"}
Timezones == {"UTC", ""}
RecurringInputs == {<<"nightly", "UTC", "*/1">>, <<"recurring-job", "", "*/2">>}
CronExpressions == {"*/1", "*/2"}
\* maxRetries: unset-like 0, 1, and a value above the queue's attempts option.
MaxRetriesValues == {0, 1, MaxRetriesBound}

VARIABLES
  now,          \* the clock, in minutes
  job,          \* the job row of the store
  executions,   \* the job_executions rows, by id 1..Len
  jobQueue,     \* the entry of queue 'chronos-jobs' under jobId = job.id
  repeatables,  \* repeatable registrations of queue 'chronos-scheduled'
  workers,      \* processJob invocations in flight, by slot
  notified,     \* notifier trigger points reached, by event
  faults,       \* store failures and worker crashes so far (up to MaxFaults)
  reply,        \* the response sent by the latest step (NoReply: none)
  process,      \* the worker process: running, closingJobs, closingScheduled, exited
  call          \* a call of a function of utils/helpers.js (NoCall: none)

vars ==
  <<now, job, executions, jobQueue, repeatables, workers, notified, faults, reply,
    process, call>>

Slots == DOMAIN workers

\* No helper call is modelled next to the scheduler and the workers.
NoCall == [fn |-> ""]

\* ------------------------------------------------------------- the store
NoJob ==
  [exists |-> FALSE, name |-> "", timezone |-> "", scheduleType |-> "immediate",
   scheduledAt |-> NULL, cronExpression |-> "", status |-> "active",
   maxRetries |-> 0, retryDelay |-> NULL, retryBackoff |-> "",
   nextExecutionAt |-> NULL, endAt |-> NULL, maxExecutions |-> NULL,
   totalExecutions |-> 0, successfulExecutions |-> 0, failedExecutions |-> 0]

\* A Sequelize instance held by a task: the row as read by findByPk (the
\* fields processJob reads or sets on it).
NoInstance ==
  [found |-> FALSE, status |-> "active", scheduleType |-> "immediate",
   totalExecutions |-> 0, successfulExecutions |-> 0, failedExecutions |-> 0]

findByPk ==
  IF ~job.exists THEN NoInstance
  ELSE [found |-> TRUE, status |-> job.status, scheduleType |-> job.scheduleType,
        totalExecutions |-> job.totalExecutions,
        successfulExecutions |-> job.successfulExecutions,
        failedExecutions |-> job.failedExecutions]


\* ------------------------------------------------------ calendar engine
CronStep(expression) == IF expression = "*/2" THEN 2 ELSE 1

validateCronExpression(expression) == expression \in CronExpressions

\* Seeded fault: the first match at or after the clock.
getNextCronExecutionInclusive(expression, timezone) ==
  ((now + CronStep(expression) - 1) \div CronStep(expression)) * CronStep(expression)

\* cron-parser's interval.next(): the first match strictly after the clock.
getNextCronExecution(expression, timezone) ==
  ((now \div CronStep(expression)) + 1) * CronStep(expression)

\* ------------------------------------------------------------ the queues
NoData ==
  [maxRetries |-> 0, retryDelay |-> NULL, retryBackoff |-> "", name |-> "",
   isManualTrigger |-> FALSE]
NoEntry == [state |-> "absent", attemptsMade |-> 0, data |-> NoData, delay |-> 0]

\* jobQueue.add(name, data, {jobId: data.jobId, delay}): BullMQ ignores an
\* add whose jobId is already present in the queue, in whatever state.
addJob(q, data, delay) ==
  IF q.state # "absent" THEN q
  ELSE [state |-> IF delay > 0 THEN "delayed" ELSE "waiting",
        attemptsMade |-> 0, data |-> data, delay |-> delay]

\* addDelayedJob: delay = executeAt - Date.now(), in ms; throws when negative.
DelayedJobThrows(executeAt) == (executeAt - now) * 60000 < 0
addDelayedJob(q, data, executeAt) == addJob(q, data, (executeAt - now) * 60000)

\* The key BullMQ files a repeatable under: name:jobId:endDate:tz:pattern.
RepeatKey(name, tz, pattern) == <<name, "job", "", tz, pattern>>

\* scheduledQueue.add(data.name || 'recurring-job', data, {repeat: {pattern, tz}}).
addRecurringJob(reps, data, cronExpression, timezone) ==
  LET name == IF data.name # "" THEN data.name ELSE "recurring-job"
      key  == RepeatKey(name, timezone, cronExpression)
  IN IF \E r \in reps : r.key = key THEN reps
     ELSE reps \cup {[key |-> key, data |-> data]}

\* removeRepeatableByKey(`recurring-job:${jobId}:::${cronExpression}`).
removeRecurringJob(reps, cronExpression) ==
  {r \in reps : r.key # <<"recurring-job", "job", "", "", cronExpression>>}

\* queue cancelJob: getJob(jobId), then job.remove(), which throws while the
\* entry is locked by a worker (state active).
CancelThrows(q) == q.state = "active"
cancelQueueJob(q) == IF q.state = "absent" THEN q ELSE NoEntry

\* ---------------------------------------------------------------- init
\* res.status(statusCode): 201/200 from the controller, err.statusCode of an
\* ApiError, 500 for any other error thrown by the handler; log is the
\* message of the JobLog entry the handler wrote ("": none).
NoReply == [op |-> "", statusCode |-> 0, log |-> ""]
Reply(op, statusCode, log) == [op |-> op, statusCode |-> statusCode, log |-> log]

IdleWorker ==
  [pc |-> "idle", queue |-> "", attemptsMade |-> 0, data |-> NoData,
   execution |-> 0, job |-> NoInstance, saves |-> <<>>, overdue |-> FALSE,
   notify |-> ""]

Init ==
  /\ now = 0
  /\ job = NoJob
  /\ executions = <<>>
  /\ jobQueue = NoEntry
  /\ repeatables = {}
  /\ workers = [w \in 1..MaxInFlight |-> IdleWorker]
  /\ notified = [max_retries_exceeded |-> 0]
  /\ faults = 0
  /\ process = "running"
  /\ call = NoCall
  /\ reply = NoReply

Tick ==
  /\ now < MaxTime
  /\ now' = now + 1
  /\ reply' = NoReply
  /\ UNCHANGED <<call, process, job, executions, jobQueue, repeatables, workers, notified, faults>>

\* ----------------------------------------------------------- the planner
\* enqueueJob's queueData: the retry fields are copied from the row.
queueData(j) ==
  [maxRetries |-> j.maxRetries, retryDelay |-> j.retryDelay,
   retryBackoff |-> j.retryBackoff, name |-> j.name, isManualTrigger |-> FALSE]

EnqueueThrows(j) == j.scheduleType = "scheduled" /\ DelayedJobThrows(j.scheduledAt)

enqueueJobQueue(j, q) ==
  CASE j.scheduleType = "immediate" -> addJob(q, queueData(j), 0)
    [] j.scheduleType = "scheduled" -> addDelayedJob(q, queueData(j), j.scheduledAt)
    [] OTHER -> q

enqueueRepeatables(j, reps) ==
  IF j.scheduleType = "recurring"
  THEN addRecurringJob(reps, queueData(j), j.cronExpression, j.timezone)
  ELSE reps

\* What pauseJob and cancelJob remove from the queues.
RemoveThrows(j) ==
  ~(j.scheduleType = "recurring" /\ j.cronExpression # "") /\ CancelThrows(jobQueue)

removeFromJobQueue(j) ==
  IF j.scheduleType = "recurring" /\ j.cronExpression # "" THEN jobQueue
  ELSE cancelQueueJob(jobQueue)

removeFromRepeatables(j) ==
  IF j.scheduleType = "recurring" /\ j.cronExpression # ""
  THEN removeRecurringJob(repeatables, j.cronExpression)
  ELSE repeatables

\* The end conditions a create or update request may carry.
EndAtInputs == {NULL, MaxTime}
MaxExecutionsInputs == {NULL, 1, 2}

\* The scheduledAt a create request may carry: any instant up to the next
\* minute.
ScheduledAtInputs == 0..(now + 1)

\* Seeded fault: create rules that refuse no scheduledAt.
CreateRejectsNothing(scheduleType, scheduledAt) == FALSE

\* The create rules on scheduledAt: an instant not after the clock is refused.
CreateRejects(scheduleType, scheduledAt) ==
  \/ scheduleType = "scheduled" /\ scheduledAt = NULL
  \/ scheduledAt # NULL /\ scheduledAt <= now

\* JobScheduler.scheduleJob on a body the create rules accept, with the
\* optional fields drawn from the given sets: retry is <<retryDelay,
\* retryBackoff>> (NULL and "" when the body leaves them out).
scheduleJobWith(Retries, EndAts, MaxExecs) ==
  /\ ~job.exists
  /\ \E scheduleType \in ScheduleTypes, maxRetries \in MaxRetriesValues,
        name \in Names, timezone \in Timezones,
        at \in ScheduledAtInputs, cron \in CronExpressions,
        retry \in Retries, endAt \in EndAts,
        maxExecutions \in MaxExecs :
       /\ <<name, timezone, cron>> \in RecurringInputs
       /\ scheduleType # "recurring" => name = "nightly"
       /\ scheduleType # "scheduled" => at = now + 1
       /\ LET scheduledAt == IF scheduleType = "scheduled" THEN at ELSE NULL
              cronExpression == IF scheduleType = "recurring" THEN cron ELSE ""
              nextExecutionAt ==
                CASE scheduleType = "immediate" -> now
                  [] scheduleType = "scheduled" -> scheduledAt
                  [] OTHER -> getNextCronExecution(cronExpression, timezone)
              created ==
                [NoJob EXCEPT !.exists = TRUE, !.name = name, !.timezone = timezone,
                   !.scheduleType = scheduleType, !.scheduledAt = scheduledAt,
                   !.cronExpression = cronExpression, !.maxRetries = maxRetries,
                   !.retryDelay = IF retry[1] # NULL THEN retry[1] ELSE defaultRetryDelay,
                   !.retryBackoff = IF retry[2] # "" THEN retry[2] ELSE "exponential",
                   !.nextExecutionAt = nextExecutionAt, !.endAt = endAt,
                   !.maxExecutions = maxExecutions, !.status = "active"]
          IN /\ ~CreateRejects(scheduleType, scheduledAt)
             /\ job' = created
             /\ jobQueue' = enqueueJobQueue(created, jobQueue)
             /\ repeatables' = enqueueRepeatables(created, repeatables)
             /\ reply' = Reply("create", 201, "Job created and scheduled")
  /\ UNCHANGED <<call, process, now, executions, workers, notified, faults>>

\* POST /jobs with a body that names no retry field and no end condition.
scheduleJob == scheduleJobWith({<<NULL, "">>}, {NULL}, {NULL})

\* POST /jobs with a scheduledAt the create rules refuse: the validate
\* middleware throws ApiError(400) and the controller is not reached.
scheduleJobRejected ==
  /\ ~job.exists
  /\ \E scheduleType \in ScheduleTypes, scheduledAt \in {NULL} \cup ScheduledAtInputs :
       /\ CreateRejects(scheduleType, scheduledAt)
       /\ reply' = Reply("create", 400, "")
  /\ UNCHANGED <<call, process, now, job, executions, jobQueue, repeatables, workers, notified, faults>>

\* POST /jobs/:id/pause on an active job (the controller admits no other).
pauseJob ==
  /\ job.exists
  /\ job.status = "active"
  /\ IF RemoveThrows(job)
     THEN /\ reply' = Reply("pause", 500, "")
          /\ UNCHANGED <<job, jobQueue, repeatables>>
     ELSE /\ jobQueue' = removeFromJobQueue(job)
          /\ repeatables' = removeFromRepeatables(job)
          /\ job' = [job EXCEPT !.status = "paused"]
          /\ reply' = Reply("pause", 200, "Job paused")
  /\ UNCHANGED <<call, process, now, executions, workers, notified, faults>>

\* POST /jobs/:id/pause on a job that is not active: ApiError(400).
pauseJobRejected ==
  /\ job.exists
  /\ job.status # "active"
  /\ reply' = Reply("pause", 400, "")
  /\ UNCHANGED <<call, process, now, job, executions, jobQueue, repeatables, workers, notified, faults>>

\* POST /jobs/:id/resume on a paused job: status is saved before the job is
\* enqueued again.
resumeJob ==
  /\ job.exists
  /\ job.status = "paused"
  /\ LET resumed ==
           [job EXCEPT !.status = "active",
              !.nextExecutionAt =
                 IF job.scheduleType = "recurring"
                 THEN getNextCronExecution(job.cronExpression, job.timezone)
                 ELSE job.nextExecutionAt]
     IN /\ job' = resumed
        /\ IF EnqueueThrows(resumed)
           THEN /\ reply' = Reply("resume", 500, "")
                /\ UNCHANGED <<jobQueue, repeatables>>
           ELSE /\ jobQueue' = enqueueJobQueue(resumed, jobQueue)
                /\ repeatables' = enqueueRepeatables(resumed, repeatables)
                /\ reply' = Reply("resume", 200, "Job resumed")
  /\ UNCHANGED <<call, process, now, executions, workers, notified, faults>>

\* Seeded fault: a resume request carried out although the job is not paused.
resumeJobUnchecked ==
  /\ job.exists
  /\ job.status # "paused"
  /\ job' = [job EXCEPT !.status = "active"]
  /\ jobQueue' = enqueueJobQueue(job, jobQueue)
  /\ repeatables' = enqueueRepeatables(job, repeatables)
  /\ reply' = Reply("resume", 200, "Job resumed")
  /\ UNCHANGED <<call, process, now, executions, workers, notified, faults>>

\* POST /jobs/:id/resume on a job that is not paused: ApiError(400), before
\* the service is called.
resumeJobRejected ==
  /\ job.exists
  /\ job.status # "paused"
  /\ reply' = Reply("resume", 400, "")
  /\ UNCHANGED <<call, process, now, job, executions, jobQueue, repeatables, workers, notified, faults>>

\* POST /jobs/:id/cancel on a job that is not cancelled; the service reads
\* no status.
cancelJob ==
  /\ job.exists
  /\ job.status # "cancelled"
  /\ IF RemoveThrows(job)
     THEN /\ reply' = Reply("cancel", 500, "")
          /\ UNCHANGED <<job, jobQueue, repeatables>>
     ELSE /\ jobQueue' = removeFromJobQueue(job)
          /\ repeatables' = removeFromRepeatables(job)
          /\ job' = [job EXCEPT !.status = "cancelled"]
          /\ reply' = Reply("cancel", 200, "Job cancelled")
  /\ UNCHANGED <<call, process, now, executions, workers, notified, faults>>

\* POST /jobs/:id/cancel on a cancelled job: ApiError(400).
cancelJobRejected ==
  /\ job.exists
  /\ job.status = "cancelled"
  /\ reply' = Reply("cancel", 400, "")
  /\ UNCHANGED <<call, process, now, job, executions, jobQueue, repeatables, workers, notified, faults>>

\* POST /jobs/:id/trigger on an active job: the envelope is added under
\* jobId = job.id, then the log entry is written.
triggerJob ==
  /\ job.exists
  /\ job.status = "active"
  /\ jobQueue' = addJob(jobQueue,
                        [NoData EXCEPT !.maxRetries = job.maxRetries,
                           !.name = job.name, !.isManualTrigger = TRUE], 0)
  /\ reply' = Reply("trigger", 200, "Job manually triggered")
  /\ UNCHANGED <<call, process, now, job, executions, repeatables, workers, notified, faults>>

\* Seeded fault: a trigger request carried out although the job is not active.
triggerJobUnchecked ==
  /\ job.exists
  /\ job.status # "active"
  /\ jobQueue' = addJob(jobQueue,
                        [NoData EXCEPT !.maxRetries = job.maxRetries,
                           !.name = job.name, !.isManualTrigger = TRUE], 0)
  /\ reply' = Reply("trigger", 200, "Job manually triggered")
  /\ UNCHANGED <<call, process, now, job, executions, repeatables, workers, notified, faults>>

\* POST /jobs/:id/trigger on a job that is not active: the service throws
\* before it builds the envelope (the controller checks no status).
triggerJobRejected ==
  /\ job.exists
  /\ job.status # "active"
  /\ reply' = Reply("trigger", 500, "")
  /\ UNCHANGED <<call, process, now, job, executions, jobQueue, repeatables, workers, notified, faults>>

\* PUT /jobs/:id with a new maxExecutions (one of the updateable fields):
\* the field is set on the instance and job.save() writes it; the job's
\* status is not read and the queues are not touched.
updateJob ==
  /\ job.exists
  /\ \E maxExecutions \in MaxExecutionsInputs :
       /\ maxExecutions # job.maxExecutions
       /\ job' = [job EXCEPT !.maxExecutions = maxExecutions]
  /\ reply' = Reply("update", 200, "Job updated")
  /\ UNCHANGED <<call, process, now, executions, jobQueue, repeatables, workers, notified, faults>>

\* POST /jobs/:id/reschedule with a new instant (cronExpression = "") or a
\* new calendar expression (scheduledAt = NULL); the job's status is not read.
rescheduleJobWith(ScheduledAts, Crons) ==
  /\ job.exists
  /\ \E scheduledAt \in ScheduledAts, cronExpression \in Crons :
       /\ (scheduledAt = NULL) # (cronExpression = "")
       /\ LET reps1 == removeFromRepeatables(job)
              updated ==
                IF scheduledAt # NULL
                THEN [job EXCEPT !.scheduleType = "scheduled", !.scheduledAt = scheduledAt,
                        !.cronExpression = "", !.nextExecutionAt = scheduledAt]
                ELSE [job EXCEPT !.scheduleType = "recurring",
                        !.cronExpression = cronExpression, !.scheduledAt = NULL,
                        !.nextExecutionAt = getNextCronExecution(cronExpression, job.timezone)]
          IN IF CancelThrows(jobQueue)
             THEN /\ repeatables' = reps1
                  /\ reply' = Reply("reschedule", 500, "")
                  /\ UNCHANGED <<job, jobQueue>>
             ELSE IF scheduledAt = NULL /\ ~validateCronExpression(cronExpression)
             THEN /\ repeatables' = reps1
                  /\ jobQueue' = cancelQueueJob(jobQueue)
                  /\ reply' = Reply("reschedule", 500, "")
                  /\ UNCHANGED job
             ELSE IF EnqueueThrows(updated)
             THEN /\ repeatables' = reps1
                  /\ jobQueue' = cancelQueueJob(jobQueue)
                  /\ job' = updated
                  /\ reply' = Reply("reschedule", 500, "")
             ELSE /\ repeatables' = enqueueRepeatables(updated, reps1)
                  /\ jobQueue' = enqueueJobQueue(updated, cancelQueueJob(jobQueue))
                  /\ job' = updated
                  /\ reply' = Reply("reschedule", 200, "Job rescheduled")
  /\ UNCHANGED <<call, process, now, executions, workers, notified, faults>>

rescheduleJob == rescheduleJobWith({NULL, now, now + 1}, CronExpressions \cup {"", "bad"})

\* ------------------------------------------------------------ the worker
\* A Worker takes an envelope when it has a free processing slot.
FreeSlot(w) ==
  /\ workers[w].pc = "idle"
  /\ \A v \in Slots : v < w => workers[v].pc # "idle"

\* JobExecution.create of the attempt (previousExecutionId is never passed).
NewExecution(queue, attemptsMade, data) ==
  [status |-> "running", attempt |-> attemptsMade + 1, isRetry |-> attemptsMade > 0,
   previousExecutionId |-> NULL, queue |-> queue]

\* processJob up to the executor call: the Execution row and the start log.
Start(w, queue, attemptsMade, data) ==
  /\ executions' = Append(executions, NewExecution(queue, attemptsMade, data))
  /\ workers' = [workers EXCEPT ![w] =
       [IdleWorker EXCEPT !.pc = "execute", !.queue = queue,
          !.attemptsMade = attemptsMade, !.data = data,
          !.execution = Len(executions) + 1]]

\* JobExecution.create throws: execution stays null and the catch block runs.
StartThrows(w, queue, attemptsMade, data) ==
  /\ workers' = [workers EXCEPT ![w] =
       [IdleWorker EXCEPT !.pc = "catch", !.queue = queue,
          !.attemptsMade = attemptsMade, !.data = data]]
  /\ UNCHANGED executions

\* A delayed entry of jobQueue becomes visible when its delay has elapsed.
Promote ==
  /\ jobQueue.state = "delayed"
  /\ jobQueue' = [jobQueue EXCEPT !.state = "waiting"]
  /\ reply' = NoReply
  /\ UNCHANGED <<call, process, now, job, executions, repeatables, workers, notified, faults>>

\* jobWorker ('chronos-jobs') delivers the waiting entry to processJob.
PopJob(w) ==
  /\ FreeSlot(w)
  /\ Len(executions) < MaxExecutions
  /\ jobQueue.state = "waiting"
  /\ jobQueue' = [jobQueue EXCEPT !.state = "active"]
  /\ Start(w, "jobs", jobQueue.attemptsMade, jobQueue.data)
  /\ reply' = NoReply
  /\ UNCHANGED <<call, process, now, job, repeatables, notified, faults>>

\* scheduledWorker ('chronos-scheduled') delivers the fire a repeatable
\* registration has materialized; the registration schedules its next fire.
PopScheduled(w) ==
  /\ FreeSlot(w)
  /\ Len(executions) < MaxExecutions
  /\ \E r \in repeatables : Start(w, "scheduled", 0, r.data)
  /\ reply' = NoReply
  /\ UNCHANGED <<call, process, now, job, jobQueue, repeatables, notified, faults>>

\* executor.execute returns a result or throws.
Execute(w) ==
  /\ workers[w].pc = "execute"
  /\ \E ok \in BOOLEAN :
       workers' = [workers EXCEPT ![w].pc = IF ok THEN "finalize" ELSE "catch"]
  /\ reply' = NoReply
  /\ UNCHANGED <<call, process, now, job, executions, jobQueue, repeatables, notified, faults>>

\* The job's timeout elapses while executor.execute is awaited: processJob
\* sets no timer on the call and never reads jobData.timeout, so the
\* invocation goes on waiting (overdue records that the deadline has passed).
Deadline(w) ==
  /\ workers[w].pc = "execute"
  /\ ~workers[w].overdue
  /\ workers' = [workers EXCEPT ![w].overdue = TRUE]
  /\ reply' = NoReply
  /\ UNCHANGED <<call, process, now, job, executions, jobQueue, repeatables, notified, faults>>

\* execution.save() as completed, then Job.findByPk and the counters set on
\* the instance.
Finalize(w) ==
  /\ workers[w].pc = "finalize"
  /\ executions' = [executions EXCEPT ![workers[w].execution].status = "completed"]
  /\ workers' = [workers EXCEPT ![w].job = findByPk,
       ![w].pc = IF ~job.exists THEN "complete"
                 ELSE IF job.scheduleType = "recurring" THEN "advance"
                 ELSE "saveJob"]
  /\ reply' = NoReply
  /\ UNCHANGED <<call, process, now, job, jobQueue, repeatables, notified, faults>>

\* Seeded fault: an advance that saves its whole instance, counters reset.
updateNextExecutionResetting(row) ==
  IF ~row.exists \/ row.scheduleType # "recurring" THEN row
  ELSE [row EXCEPT !.totalExecutions = 0,
          !.nextExecutionAt = getNextCronExecution(row.cronExpression, row.timezone)]

\* JobScheduler.updateNextExecution on its own instance of the row.
updateNextExecution(row) ==
  IF ~row.exists \/ row.scheduleType # "recurring" THEN row
  ELSE IF row.endAt # NULL /\ now >= row.endAt
  THEN [row EXCEPT !.status = "completed"]
  ELSE IF row.maxExecutions # NULL /\ row.maxExecutions # 0
          /\ row.totalExecutions >= row.maxExecutions
  THEN [row EXCEPT !.status = "completed"]
  ELSE [row EXCEPT !.nextExecutionAt =
          getNextCronExecution(row.cronExpression, row.timezone)]

Advance(w) ==
  /\ workers[w].pc = "advance"
  /\ job' = updateNextExecution(job)
  /\ workers' = [workers EXCEPT ![w].pc = "saveJob"]
  /\ reply' = NoReply
  /\ UNCHANGED <<call, process, now, executions, jobQueue, repeatables, notified, faults>>

\* Seeded fault: a success save that writes the counters but no status.
SaveSuccessCountersOnly(row, inst) ==
  [row EXCEPT
     !.totalExecutions = inst.totalExecutions + 1,
     !.successfulExecutions = inst.successfulExecutions + 1]

\* job.save() of the success path: an UPDATE of the fields changed on the
\* instance, with the values computed from the instance.
SaveSuccess(row, inst) ==
  [row EXCEPT
     !.totalExecutions = inst.totalExecutions + 1,
     !.successfulExecutions = inst.successfulExecutions + 1,
     !.status = IF inst.scheduleType # "recurring" /\ inst.status # "completed"
                THEN "completed" ELSE row.status]

\* What notificationService.notify meets: the mail is sent, the user lookup
\* or the transport throws, or the owner's preferences skip the event.
NotifierOutcomes == {"sent", "failed", "skipped"}

\* Seeded fault: a notify that lets the notifier's error through.
NotifyThrowsOnFailure(outcome) == outcome = "failed"

\* notify wraps its whole body in try/catch and only logs the error.
NotifyThrows(outcome) == FALSE

\* job.save() of the success path, then notifyJobCompleted; an error thrown
\* there would pass control to the catch block.
SaveJobWith(w, Outcomes) ==
  /\ workers[w].pc = "saveJob"
  /\ job' = SaveSuccess(job, workers[w].job)
  /\ \E outcome \in Outcomes :
       workers' = [workers EXCEPT
         ![w].pc = IF NotifyThrows(outcome) THEN "catch" ELSE "complete",
         ![w].saves = Append(@, "success"),
         ![w].notify = outcome]
  /\ reply' = NoReply
  /\ UNCHANGED <<call, process, now, executions, jobQueue, repeatables, notified, faults>>

SaveJob(w) == SaveJobWith(w, {"sent"})

\* BullMQ moves the entry of a returned processJob to completed and keeps it
\* (removeOnComplete keeps the last 1000).
moveToCompleted(q) == [q EXCEPT !.state = "completed", !.attemptsMade = @ + 1]

\* The success log and the return to BullMQ.
Complete(w) ==
  /\ workers[w].pc = "complete"
  /\ workers' = [workers EXCEPT ![w] = IdleWorker]
  /\ jobQueue' = IF workers[w].queue = "jobs" THEN moveToCompleted(jobQueue)
                 ELSE jobQueue
  /\ reply' = NoReply
  /\ UNCHANGED <<call, process, now, job, executions, repeatables, notified, faults>>

isLastAttempt(attemptsMade, data) ==
  attemptsMade + 1 >= (IF data.maxRetries # 0 THEN data.maxRetries ELSE maxRetryAttempts)

FailExecution(w) ==
  IF workers[w].execution = 0 THEN executions
  ELSE [executions EXCEPT ![workers[w].execution].status = "failed"]

\* The catch block up to Job.findByPk.  An error thrown inside the catch
\* block leaves processJob at once.
Catch(w) ==
  /\ workers[w].pc = "catch"
  /\ executions' = FailExecution(w)
  /\ workers' = [workers EXCEPT ![w].job = findByPk,
       ![w].pc = IF job.exists THEN "catchSaveJob" ELSE "fail"]
  /\ reply' = NoReply
  /\ UNCHANGED <<call, process, now, job, jobQueue, repeatables, notified, faults>>

\* job.save() of the failure path.
SaveFailure(row, inst, last) ==
  [row EXCEPT
     !.totalExecutions = inst.totalExecutions + 1,
     !.failedExecutions = inst.failedExecutions + 1,
     !.status = IF last /\ inst.status # "failed" THEN "failed" ELSE row.status]

\* The counters and status on the instance, the notification
\* (notifyMaxRetriesExceeded or notifyJobRetry), then job.save(); an error
\* thrown by the notification would leave processJob before job.save().
CatchSaveJobWith(w, Outcomes) ==
  /\ workers[w].pc = "catchSaveJob"
  /\ LET last == isLastAttempt(workers[w].attemptsMade, workers[w].data)
     IN /\ notified' = IF last THEN [notified EXCEPT !.max_retries_exceeded = @ + 1]
                       ELSE notified
        /\ \E outcome \in Outcomes :
             IF NotifyThrows(outcome)
             THEN /\ UNCHANGED job
                  /\ workers' = [workers EXCEPT ![w].pc = "fail",
                                                ![w].notify = outcome]
             ELSE /\ job' = SaveFailure(job, workers[w].job, last)
                  /\ workers' = [workers EXCEPT ![w].pc = "fail",
                                                ![w].saves = Append(@, "failure"),
                                                ![w].notify = outcome]
  /\ reply' = NoReply
  /\ UNCHANGED <<call, process, now, executions, jobQueue, repeatables, faults>>

CatchSaveJob(w) == CatchSaveJobWith(w, {"sent"})

\* 2^n
RECURSIVE Pow2(_)
Pow2(n) == IF n <= 0 THEN 1 ELSE 2 * Pow2(n - 1)

\* 5^n: the factor of the README's retry table.
RECURSIVE Pow5(_)
Pow5(n) == IF n <= 0 THEN 1 ELSE 5 * Pow5(n - 1)

\* Seeded fault: a backoff that multiplies the delay by five per attempt.
moveToFailedTimesFive(q) ==
  IF q.attemptsMade + 1 < maxRetryAttempts
  THEN [q EXCEPT !.state = "delayed", !.attemptsMade = @ + 1,
                 !.delay = retryDelayMs * Pow5(q.attemptsMade)]
  ELSE [q EXCEPT !.state = "failed", !.attemptsMade = @ + 1]

\* BullMQ on a rejected processJob: with attempts left (defaultJobOptions
\* of jobQueue) the entry is delayed by the exponential backoff, otherwise it
\* is moved to failed and kept.
moveToFailed(q) ==
  IF q.attemptsMade + 1 < maxRetryAttempts
  THEN [q EXCEPT !.state = "delayed", !.attemptsMade = @ + 1,
                 !.delay = retryDelayMs * Pow2(q.attemptsMade)]
  ELSE [q EXCEPT !.state = "failed", !.attemptsMade = @ + 1]

\* The failure log and the rethrow to BullMQ.  Entries of scheduledQueue
\* carry no attempts option and are not retried.
Fail(w) ==
  /\ workers[w].pc = "fail"
  /\ workers' = [workers EXCEPT ![w] = IdleWorker]
  /\ jobQueue' = IF workers[w].queue = "jobs" THEN moveToFailed(jobQueue) ELSE jobQueue
  /\ reply' = NoReply
  /\ UNCHANGED <<call, process, now, job, executions, repeatables, notified, faults>>

\* ------------------------------------------------------ store failures
\* A store operation of the invocation's current step throws
\* (StoreUnavailable): in the try block control passes to the catch block,
\* in the catch block the error leaves processJob.
StoreThrowsAtStart(w) ==
  /\ FreeSlot(w)
  /\ faults < MaxFaults
  /\ faults' = faults + 1
  /\ \/ /\ jobQueue.state = "waiting"
        /\ jobQueue' = [jobQueue EXCEPT !.state = "active"]
        /\ StartThrows(w, "jobs", jobQueue.attemptsMade, jobQueue.data)
     \/ /\ \E r \in repeatables : StartThrows(w, "scheduled", 0, r.data)
        /\ UNCHANGED jobQueue
  /\ reply' = NoReply
  /\ UNCHANGED <<call, process, now, job, repeatables, notified>>

StoreThrows(w) ==
  /\ workers[w].pc \in {"finalize", "advance", "saveJob", "complete", "catch", "catchSaveJob"}
  /\ faults < MaxFaults
  /\ faults' = faults + 1
  /\ workers' = [workers EXCEPT ![w].pc =
       IF workers[w].pc \in {"catch", "catchSaveJob"} THEN "fail" ELSE "catch"]
  /\ executions' \in
       CASE workers[w].pc = "finalize" ->
              \* execution.save() throws, or it succeeds and Job.findByPk throws
              {executions,
               [executions EXCEPT ![workers[w].execution].status = "completed"]}
         [] workers[w].pc = "catch" ->
              {executions, FailExecution(w)}
         [] OTHER -> {executions}
  /\ notified' =
       \* the notification precedes the failing job.save()
       IF workers[w].pc = "catchSaveJob"
          /\ isLastAttempt(workers[w].attemptsMade, workers[w].data)
       THEN [notified EXCEPT !.max_retries_exceeded = @ + 1]
       ELSE notified
  /\ reply' = NoReply
  /\ UNCHANGED <<call, process, now, job, jobQueue, repeatables>>

\* ------------------------------------------------------ worker crashes
\* The worker process dies (or loses the entry's lock) while processJob
\* holds an entry of chronos-jobs: BullMQ's stalled check moves the entry
\* back to waiting with attemptsMade as it was; the 'stalled' listener only
\* logs.  Whatever the invocation had written stays written.
Stalled(w) ==
  /\ workers[w].pc # "idle"
  /\ workers[w].queue = "jobs"
  /\ jobQueue.state = "active"
  /\ faults < MaxFaults
  /\ faults' = faults + 1
  /\ jobQueue' = [jobQueue EXCEPT !.state = "waiting"]
  /\ workers' = [workers EXCEPT ![w] = IdleWorker]
  /\ reply' = NoReply
  /\ UNCHANGED <<call, process, now, job, executions, repeatables, notified>>

\* The scheduler and the workers while the store answers every request.
Next ==
  \/ scheduleJob
  \/ pauseJob
  \/ resumeJob
  \/ cancelJob
  \/ triggerJob
  \/ Promote
  \/ \E w \in Slots : PopJob(w)
  \/ \E w \in Slots : PopScheduled(w)
  \/ \E w \in Slots : Execute(w)
  \/ \E w \in Slots : Finalize(w)
  \/ \E w \in Slots : Advance(w)
  \/ \E w \in Slots : SaveJob(w)
  \/ \E w \in Slots : Complete(w)
  \/ \E w \in Slots : Catch(w)
  \/ \E w \in Slots : CatchSaveJob(w)
  \/ \E w \in Slots : Fail(w)

Spec == Init /\ [][Next]_vars

\* One processJob at a time, with store operations that may fail.
InitStoreFaults ==
  /\ now = 0
  /\ job = NoJob
  /\ executions = <<>>
  /\ jobQueue = NoEntry
  /\ repeatables = {}
  /\ workers = [w \in {1} |-> IdleWorker]
  /\ notified = [max_retries_exceeded |-> 0]
  /\ faults = 0
  /\ process = "running"
  /\ call = NoCall
  /\ reply = NoReply

NextStoreFaults ==
  \/ Next
  \/ \E w \in Slots : StoreThrowsAtStart(w)
  \/ \E w \in Slots : StoreThrows(w)

SpecStoreFaults == InitStoreFaults /\ [][NextStoreFaults]_vars

\* The planner's requests, refused ones included, against a running clock,
\* one processJob at a time.
InitPlanner == InitStoreFaults

NextPlanner ==
  \/ Next
  \/ scheduleJobRejected
  \/ pauseJobRejected
  \/ resumeJobRejected
  \/ cancelJobRejected
  \/ triggerJobRejected
  \/ Tick

SpecPlanner == InitPlanner /\ [][NextPlanner]_vars

\* Create, pause, resume, cancel and reschedule against a running clock, one
\* processJob at a time.
InitReschedule == InitStoreFaults

NextReschedule ==
  \/ scheduleJob
  \/ pauseJob
  \/ resumeJob
  \/ cancelJob
  \/ rescheduleJob
  \/ Tick
  \/ Promote
  \/ \E w \in Slots : PopJob(w)
  \/ \E w \in Slots : PopScheduled(w)
  \/ \E w \in Slots : Execute(w)
  \/ \E w \in Slots : Finalize(w)
  \/ \E w \in Slots : Advance(w)
  \/ \E w \in Slots : SaveJob(w)
  \/ \E w \in Slots : Complete(w)
  \/ \E w \in Slots : Catch(w)
  \/ \E w \in Slots : CatchSaveJob(w)
  \/ \E w \in Slots : Fail(w)

SpecReschedule == InitReschedule /\ [][NextReschedule]_vars

\* Jobs created with an end condition (endAt, maxExecutions), one processJob
\* at a time, against a running clock.
scheduleJobEnding == scheduleJobWith({<<NULL, "">>}, EndAtInputs, MaxExecutionsInputs)

InitEndCondition == InitStoreFaults

NextEndCondition ==
  \/ scheduleJobEnding
  \/ Tick
  \/ Promote
  \/ \E w \in Slots : PopJob(w)
  \/ \E w \in Slots : PopScheduled(w)
  \/ \E w \in Slots : Execute(w)
  \/ \E w \in Slots : Finalize(w)
  \/ \E w \in Slots : Advance(w)
  \/ \E w \in Slots : SaveJob(w)
  \/ \E w \in Slots : Complete(w)
  \/ \E w \in Slots : Catch(w)
  \/ \E w \in Slots : CatchSaveJob(w)
  \/ \E w \in Slots : Fail(w)

SpecEndCondition == InitEndCondition /\ [][NextEndCondition]_vars

\* Jobs created with retry fields of their own, one processJob at a time.
RetryInputs == {<<NULL, "">>, <<1000, "exponential">>, <<1000, "fixed">>}

scheduleJobRetrying == scheduleJobWith(RetryInputs, {NULL}, {NULL})

InitRetry == InitStoreFaults

NextRetry ==
  \/ scheduleJobRetrying
  \/ Promote
  \/ \E w \in Slots : PopJob(w)
  \/ \E w \in Slots : PopScheduled(w)
  \/ \E w \in Slots : Execute(w)
  \/ \E w \in Slots : Finalize(w)
  \/ \E w \in Slots : Advance(w)
  \/ \E w \in Slots : SaveJob(w)
  \/ \E w \in Slots : Complete(w)
  \/ \E w \in Slots : Catch(w)
  \/ \E w \in Slots : CatchSaveJob(w)
  \/ \E w \in Slots : Fail(w)

SpecRetry == InitRetry /\ [][NextRetry]_vars

\* Attempts whose executor may outlast the job's timeout, one processJob at
\* a time.
InitTimeout == InitStoreFaults

NextTimeout ==
  \/ scheduleJob
  \/ Promote
  \/ \E w \in Slots : PopJob(w)
  \/ \E w \in Slots : PopScheduled(w)
  \/ \E w \in Slots : Execute(w)
  \/ \E w \in Slots : Deadline(w)
  \/ \E w \in Slots : Finalize(w)
  \/ \E w \in Slots : Advance(w)
  \/ \E w \in Slots : SaveJob(w)
  \/ \E w \in Slots : Complete(w)
  \/ \E w \in Slots : Catch(w)
  \/ \E w \in Slots : CatchSaveJob(w)
  \/ \E w \in Slots : Fail(w)

SpecTimeout == InitTimeout /\ [][NextTimeout]_vars

\* Attempts whose notifications may be sent, fail or be skipped, one
\* processJob at a time.
SaveJobNotifying(w) == SaveJobWith(w, NotifierOutcomes)
CatchSaveJobNotifying(w) == CatchSaveJobWith(w, NotifierOutcomes)

InitNotify == InitStoreFaults

NextNotify ==
  \/ scheduleJob
  \/ Promote
  \/ \E w \in Slots : PopJob(w)
  \/ \E w \in Slots : PopScheduled(w)
  \/ \E w \in Slots : Execute(w)
  \/ \E w \in Slots : Finalize(w)
  \/ \E w \in Slots : Advance(w)
  \/ \E w \in Slots : SaveJobNotifying(w)
  \/ \E w \in Slots : Complete(w)
  \/ \E w \in Slots : Catch(w)
  \/ \E w \in Slots : CatchSaveJobNotifying(w)
  \/ \E w \in Slots : Fail(w)

SpecNotify == InitNotify /\ [][NextNotify]_vars

\* Workers that may crash in the middle of an attempt, one processJob at a
\* time; no request touches the queues after the job's creation.
InitStall == InitStoreFaults

NextStall ==
  \/ scheduleJob
  \/ Promote
  \/ \E w \in Slots : PopJob(w)
  \/ \E w \in Slots : PopScheduled(w)
  \/ \E w \in Slots : Execute(w)
  \/ \E w \in Slots : Finalize(w)
  \/ \E w \in Slots : Advance(w)
  \/ \E w \in Slots : SaveJob(w)
  \/ \E w \in Slots : Complete(w)
  \/ \E w \in Slots : Catch(w)
  \/ \E w \in Slots : CatchSaveJob(w)
  \/ \E w \in Slots : Fail(w)
  \/ \E w \in Slots : Stalled(w)

SpecStall == InitStall /\ [][NextStall]_vars

\* Every request of the planner, update and reschedule included, one
\* processJob at a time.
InitFrame == InitStoreFaults

rescheduleJobAhead == rescheduleJobWith({NULL, now + 1}, {"", "*/2"})

NextFrame ==
  \/ Next
  \/ updateJob
  \/ rescheduleJobAhead

SpecFrame == InitFrame /\ [][NextFrame]_vars

\* One worker process: startWorker builds a Worker on chronos-jobs and a
\* Worker on chronos-scheduled, each with its own concurrency option (5 in
\* the code, MaxPerWorker here); BullMQ keeps each Worker within its own.
InFlight(queue) == {w \in Slots : workers[w].pc # "idle" /\ workers[w].queue = queue}

PopJobWithin(w) ==
  /\ Cardinality(InFlight("jobs")) < MaxPerWorker
  /\ PopJob(w)

PopScheduledWithin(w) ==
  /\ Cardinality(InFlight("scheduled")) < MaxPerWorker
  /\ PopScheduled(w)

InitConcurrency ==
  /\ now = 0
  /\ job = NoJob
  /\ executions = <<>>
  /\ jobQueue = NoEntry
  /\ repeatables = {}
  /\ workers = [w \in 1..(2 * MaxPerWorker) |-> IdleWorker]
  /\ notified = [max_retries_exceeded |-> 0]
  /\ faults = 0
  /\ process = "running"
  /\ call = NoCall
  /\ reply = NoReply

NextConcurrency ==
  \/ scheduleJob
  \/ triggerJob
  \/ Promote
  \/ \E w \in Slots : PopJobWithin(w)
  \/ \E w \in Slots : PopScheduledWithin(w)
  \/ \E w \in Slots : Execute(w)
  \/ \E w \in Slots : Finalize(w)
  \/ \E w \in Slots : Advance(w)
  \/ \E w \in Slots : SaveJob(w)
  \/ \E w \in Slots : Complete(w)
  \/ \E w \in Slots : Catch(w)
  \/ \E w \in Slots : CatchSaveJob(w)
  \/ \E w \in Slots : Fail(w)

SpecConcurrency == InitConcurrency /\ [][NextConcurrency]_vars

\* The worker process's shutdown handler: await jobWorker.close(), then
\* await scheduledWorker.close(), then process.exit(0).  A closing Worker
\* fetches no entry and its close() resolves when its invocations of
\* processJob have returned (at once when it holds none); the handler sets
\* no timer.
Signal ==
  /\ process = "running"
  /\ process' = IF InFlight("jobs") = {} THEN "closingScheduled" ELSE "closingJobs"
  /\ reply' = NoReply
  /\ UNCHANGED <<call, now, job, executions, jobQueue, repeatables, workers, notified, faults>>

CloseJobWorker ==
  /\ process = "closingJobs"
  /\ InFlight("jobs") = {}
  /\ process' = "closingScheduled"
  /\ reply' = NoReply
  /\ UNCHANGED <<call, now, job, executions, jobQueue, repeatables, workers, notified, faults>>

CloseScheduledWorker ==
  /\ process = "closingScheduled"
  /\ InFlight("scheduled") = {}
  /\ process' = "exited"
  /\ reply' = NoReply
  /\ UNCHANGED <<call, now, job, executions, jobQueue, repeatables, workers, notified, faults>>

\* Each Worker fetches until its own close() has been called.
PopJobUntilClosed(w) ==
  /\ process = "running"
  /\ PopJob(w)

PopScheduledUntilClosed(w) ==
  /\ process \in {"running", "closingJobs"}
  /\ PopScheduled(w)

InitShutdown == Init

NextShutdown ==
  \/ scheduleJob
  \/ triggerJob
  \/ Promote
  \/ Signal
  \/ CloseJobWorker
  \/ CloseScheduledWorker
  \/ \E w \in Slots : PopJobUntilClosed(w)
  \/ \E w \in Slots : PopScheduledUntilClosed(w)
  \/ \E w \in Slots : Execute(w)
  \/ \E w \in Slots : Finalize(w)
  \/ \E w \in Slots : Advance(w)
  \/ \E w \in Slots : SaveJob(w)
  \/ \E w \in Slots : Complete(w)
  \/ \E w \in Slots : Catch(w)
  \/ \E w \in Slots : CatchSaveJob(w)
  \/ \E w \in Slots : Fail(w)

SpecShutdown == InitShutdown /\ [][NextShutdown]_vars

\* Reschedule requests that carry an expression cron-parser refuses, one
\* processJob at a time.
rescheduleJobInvalid == rescheduleJobWith({NULL}, {"bad"})

InitInvalidCron == InitStoreFaults

NextInvalidCron ==
  \/ scheduleJob
  \/ rescheduleJobInvalid
  \/ Promote
  \/ \E w \in Slots : PopJob(w)
  \/ \E w \in Slots : PopScheduled(w)
  \/ \E w \in Slots : Execute(w)
  \/ \E w \in Slots : Finalize(w)
  \/ \E w \in Slots : Advance(w)
  \/ \E w \in Slots : SaveJob(w)
  \/ \E w \in Slots : Complete(w)
  \/ \E w \in Slots : Catch(w)
  \/ \E w \in Slots : CatchSaveJob(w)
  \/ \E w \in Slots : Fail(w)

SpecInvalidCron == InitInvalidCron /\ [][NextInvalidCron]_vars

\* ------------------------------------------------------ utils/helpers.js
Min(a, b) == IF a < b THEN a ELSE b

\* Seeded fault: a slice that takes the element at end too.
sliceThrough(array, start, end) ==
  SubSeq(array, Min(start, Len(array)) + 1, Min(end + 1, Len(array)))

\* Array.prototype.slice(start, end) for start, end >= 0: the elements at
\* the 0-based positions start .. end-1 that exist.
slice(array, start, end) ==
  SubSeq(array, Min(start, Len(array)) + 1, Min(end, Len(array)))

\* Math.ceil(a / b) for a >= 0 and b >= 1.
ceil(a, b) == (a + b - 1) \div b

paginate(array, page, limit) ==
  LET start == (page - 1) * limit
      end   == start + limit
  IN [data |-> slice(array, start, end),
      pagination |-> [total |-> Len(array), page |-> page, limit |-> limit,
                      pages |-> ceil(Len(array), limit)]]

Elements == {1, 2}
Arrays == UNION {[1..n -> Elements] : n \in 0..MaxLen}

\* One call of paginate on any array, page >= 1 and limit >= 1.
InitPaginate ==
  /\ now = 0
  /\ job = NoJob
  /\ executions = <<>>
  /\ jobQueue = NoEntry
  /\ repeatables = {}
  /\ workers = [w \in {1} |-> IdleWorker]
  /\ notified = [max_retries_exceeded |-> 0]
  /\ faults = 0
  /\ reply = NoReply
  /\ process = "running"
  /\ call \in [fn : {"paginate"}, array : Arrays, page : 1..MaxPage,
               limit : 1..MaxLimit, returned : {FALSE},
               result : {paginate(<<>>, 1, 1)}]

paginateReturns ==
  /\ call.fn = "paginate"
  /\ ~call.returned
  /\ call' = [call EXCEPT !.returned = TRUE,
                          !.result = paginate(call.array, call.page, call.limit)]
  /\ UNCHANGED <<now, job, executions, jobQueue, repeatables, workers, notified,
                 faults, reply, process>>

NextPaginate == paginateReturns

SpecPaginate == InitPaginate /\ [][NextPaginate]_vars

\* retryWithBackoff(fn, maxRetries, baseDelay, backoffType). The n-th call of
\* fn returns the value n or throws the error n; calls records the outcome of
\* each call and sleeps the argument of each sleep, in order.
BaseDelays == {1000, retryDelayMs}

BackoffTypes == {"exponential", "fixed"}

InitRetryWithBackoff ==
  /\ now = 0
  /\ job = NoJob
  /\ executions = <<>>
  /\ jobQueue = NoEntry
  /\ repeatables = {}
  /\ workers = [w \in {1} |-> IdleWorker]
  /\ notified = [max_retries_exceeded |-> 0]
  /\ faults = 0
  /\ reply = NoReply
  /\ process = "running"
  /\ call \in [fn : {"retryWithBackoff"}, maxRetries : 0..MaxAttempts,
               baseDelay : BaseDelays, backoffType : BackoffTypes,
               attempt : {1}, lastError : {NULL}, calls : {<<>>},
               sleeps : {<<>>}, pc : {"for"}, result : {NULL}]

\* The delay slept after a failed attempt.
delay(baseDelay, backoffType, attempt) ==
  IF backoffType = "exponential" THEN baseDelay * Pow2(attempt - 1) ELSE baseDelay

\* A fault of the sleep guard: it also admits the final attempt.
sleepsThroughLast(attempt, maxRetries) == attempt <= maxRetries

\* The guard of the sleep in the catch block.
sleepsAfter(attempt, maxRetries) == attempt < maxRetries

\* try { return await fn(); } with fn resolving.
fnReturns ==
  /\ call.fn = "retryWithBackoff"
  /\ call.pc = "for"
  /\ call.attempt <= call.maxRetries
  /\ call' = [call EXCEPT !.calls = Append(@, "returned"),
                          !.result = Len(call.calls) + 1,
                          !.pc = "returned"]
  /\ UNCHANGED <<now, job, executions, jobQueue, repeatables, workers, notified,
                 faults, reply, process>>

\* catch (error): fn rejected; lastError is kept and the loop either sleeps
\* or goes straight to its next iteration.
fnThrows ==
  /\ call.fn = "retryWithBackoff"
  /\ call.pc = "for"
  /\ call.attempt <= call.maxRetries
  /\ call' = [call EXCEPT !.calls = Append(@, "thrown"),
                          !.lastError = Len(call.calls) + 1,
                          !.pc = IF sleepsAfter(call.attempt, call.maxRetries)
                                 THEN "sleep" ELSE "for",
                          !.attempt = IF sleepsAfter(call.attempt, call.maxRetries)
                                      THEN @ ELSE @ + 1]
  /\ UNCHANGED <<now, job, executions, jobQueue, repeatables, workers, notified,
                 faults, reply, process>>

\* await sleep(delay), then attempt++.
sleep ==
  /\ call.fn = "retryWithBackoff"
  /\ call.pc = "sleep"
  /\ call' = [call EXCEPT !.sleeps = Append(@, delay(call.baseDelay,
                                                    call.backoffType, call.attempt)),
                          !.attempt = @ + 1,
                          !.pc = "for"]
  /\ UNCHANGED <<now, job, executions, jobQueue, repeatables, workers, notified,
                 faults, reply, process>>

\* throw lastError, once the loop condition fails.
throwLastError ==
  /\ call.fn = "retryWithBackoff"
  /\ call.pc = "for"
  /\ call.attempt > call.maxRetries
  /\ call' = [call EXCEPT !.result = call.lastError, !.pc = "thrown"]
  /\ UNCHANGED <<now, job, executions, jobQueue, repeatables, workers, notified,
                 faults, reply, process>>

NextRetryWithBackoff ==
  \/ fnReturns
  \/ fnThrows
  \/ sleep
  \/ throwLastError

SpecRetryWithBackoff == InitRetryWithBackoff /\ [][NextRetryWithBackoff]_vars

\* ------------------------------------------------------------- claims
Idle == \A w \in Slots : workers[w].pc = "idle"

\* The retry chain of a non-recurring job has ended with every attempt
\* failed: BullMQ holds the entry as failed and nothing is in flight.
ChainExhausted ==
  /\ job.exists
  /\ job.scheduleType # "recurring"
  /\ jobQueue.state = "failed"
  /\ Idle
  /\ executions # <<>>
  /\ \A i \in DOMAIN executions : executions[i].status = "failed"

\* C1: in every reachable state the job's successful_executions plus
\* failed_executions is at most its total_executions.
C1_CountersBounded ==
  job.successfulExecutions + job.failedExecutions <= job.totalExecutions

\* C2: one processJob invocation applies one outcome to the job's counters:
\* it never saves a second increment of total_executions (a success and
\* then a failure) for the same attempt.
C2_OneOutcomePerAttempt ==
  \A w \in Slots : Len(workers[w].saves) <= 1

\* C3: a non-recurring job whose attempts all fail is marked failed once its
\* retries are exhausted; it is not left active with nothing pending.
C3_ExhaustedJobIsFailed ==
  ChainExhausted => job.status # "active"

\* C4: a job whose every attempt fails gets exactly max_retries + 1
\* Execution rows.
C4_RowsAreMaxRetriesPlusOne ==
  ChainExhausted => Len(executions) = jobQueue.data.maxRetries + 1

\* C5: over a chain whose attempts all fail, max_retries_exceeded is
\* emitted exactly once.
C5_MaxRetriesExceededOnce ==
  ChainExhausted => notified.max_retries_exceeded = 1

\* C6: a job status of completed, failed or cancelled is never changed to
\* another value.
C6_TerminalStatusAbsorbing ==
  [][job.status \in TerminalStatuses => job'.status = job.status]_vars

\* C7: a job whose status is completed, cancelled or failed has
\* next_execution_at = null.
C7_TerminalHasNoNextExecution ==
  (job.exists /\ job.status \in TerminalStatuses) => job.nextExecutionAt = NULL

\* C8: an Execution row written with a terminal status is never rewritten
\* with another status.
C8_ExecutionStatusMonotonic ==
  [][\A i \in DOMAIN executions :
       executions[i].status \in ExecutionTerminal
         => executions'[i].status = executions[i].status]_vars

\* C9: two executions started by scheduled fires of the recurring job are
\* never running at the same time.
C9_NoOverlappingFires ==
  Cardinality({i \in DOMAIN executions :
                 executions[i].status = "running" /\ executions[i].queue = "scheduled"}) <= 1

\* C10: when pauseJob has succeeded, the queues hold no pending or delayed
\* envelope and no repeatable registration of the job.
C10_PauseEmptiesQueues ==
  [][(job.status = "active" /\ job'.status = "paused")
       => (jobQueue'.state \notin {"waiting", "delayed"} /\ repeatables' = {})]_vars

\* C11: once a job is cancelled, no Execution of it is started: while the
\* status is cancelled no step adds an Execution row.
C11_NoExecutionAfterCancel ==
  [][job.status = "cancelled" => Len(executions') = Len(executions)]_vars

\* C12: when the planner pauses or cancels the job while an attempt is being
\* finalized (the attempt read the row as active, the row now says paused or
\* cancelled), the attempt's job.save() leaves that status.
C12_WorkerKeepsPlannerStatus ==
  [][\A w \in Slots :
       (/\ workers[w].pc \in {"saveJob", "catchSaveJob"}
        /\ workers'[w].pc # workers[w].pc
        /\ workers[w].job.status = "active"
        /\ job.status \in {"paused", "cancelled"})
       => job'.status = job.status]_vars

\* C13: a trigger request on a job that is not active is answered with an
\* error, writes no log entry, and leaves the job row and the queues as
\* they were.
C13_TriggerRejectedUnlessActive ==
  [][(reply'.op = "trigger" /\ job.exists /\ job.status # "active")
       => (/\ reply'.statusCode >= 400
           /\ reply'.log = ""
           /\ UNCHANGED <<job, jobQueue, repeatables, executions>>)]_vars

C13_Witness ==
  /\ reply = Reply("trigger", 500, "")
  /\ job.status = "paused"

\* C14: a resume request on a job that is not paused is answered with an
\* error and leaves the job row and the queues as they were.
C14_ResumeRejectedUnlessPaused ==
  [][(reply'.op = "resume" /\ job.exists /\ job.status # "paused")
       => (/\ reply'.statusCode >= 400
           /\ reply'.log = ""
           /\ UNCHANGED <<job, jobQueue, repeatables, executions>>)]_vars

C14_Witness ==
  /\ reply = Reply("resume", 400, "")
  /\ job.status = "completed"

\* C15: every trigger request answered with success puts a new envelope in
\* the ready queue, whatever entry the queue already holds for the job.
C15_TriggerAlwaysEnqueues ==
  [][(reply'.op = "trigger" /\ reply'.statusCode = 200)
       => (jobQueue' # jobQueue /\ jobQueue'.state = "waiting")]_vars

\* C16: a reschedule request on a completed, failed or cancelled job is
\* answered with an error and changes neither the job row nor the queues.
C16_RescheduleRejectedWhenTerminal ==
  [][(reply'.op = "reschedule" /\ job.status \in TerminalStatuses)
       => (/\ reply'.statusCode >= 400
           /\ UNCHANGED <<job, jobQueue, repeatables>>)]_vars

\* C17: a reschedule request on a paused job with nothing registered leaves
\* it paused with nothing deliverable: no waiting or delayed entry and no
\* repeatable registration.
C17_ReschedulePausedRegistersNothing ==
  [][(/\ reply'.op = "reschedule"
      /\ job.status = "paused"
      /\ jobQueue.state = "absent"
      /\ repeatables = {})
       => (/\ job'.status = "paused"
           /\ jobQueue'.state \notin {"waiting", "delayed"}
           /\ repeatables' = {})]_vars

\* C18: a cancel request on a completed, failed or cancelled job leaves the
\* job's status and the queues as they were.
C18_CancelIdempotentOnTerminal ==
  [][(reply'.op = "cancel" /\ job.status \in TerminalStatuses)
       => (job'.status = job.status /\ UNCHANGED <<jobQueue, repeatables>>)]_vars

\* C19: a job of schedule type scheduled is created only with scheduled_at
\* after the current instant; a refused create request is answered 400 and
\* leaves no job row and no queue entry.
C19_PastScheduledAtRejected ==
  [][reply'.op = "create"
       => IF reply'.statusCode = 201
          THEN job'.scheduleType = "scheduled" => job'.scheduledAt > now
          ELSE /\ reply'.statusCode = 400
               /\ ~job'.exists
               /\ jobQueue' = NoEntry
               /\ repeatables' = {}]_vars

C19_Witness ==
  /\ reply = Reply("create", 400, "")
  /\ now > 0
  /\ ~job.exists
  /\ jobQueue = NoEntry

\* The first instant strictly after t that the calendar expression matches.
FirstMatchAfter(expression, t) ==
  CHOOSE m \in (t + 1)..(t + CronStep(expression)) : m % CronStep(expression) = 0

\* The registrations Create's rules give a job of this schedule type: one
\* entry of jobQueue that is pending or being processed, or one repeatable
\* of scheduledQueue.
OneRegistration(j, q, reps) ==
  CASE j.scheduleType = "recurring" -> Cardinality(reps) = 1
    [] j.scheduleType = "immediate" -> q.state \in {"waiting", "active"} /\ reps = {}
    [] OTHER -> q.state \in {"waiting", "delayed", "active"} /\ reps = {}

\* C20: after a resume request answered with success the job is active, has
\* exactly one queue registration, and, if recurring, a next_execution_at
\* equal to the first calendar match strictly after the instant of the resume.
C20_ResumeReRegisters ==
  [][(reply'.op = "resume" /\ reply'.statusCode = 200)
       => (/\ job'.status = "active"
           /\ OneRegistration(job', jobQueue', repeatables')
           /\ job'.scheduleType = "recurring"
                => job'.nextExecutionAt = FirstMatchAfter(job'.cronExpression, now))]_vars

\* C21: for a recurring job, the post-attempt advance that follows the
\* finalization of the attempt bringing total_executions to max_executions
\* completes the job, and so does the first advance at or after end_at.
C21_AdvanceCompletesAtEndCondition ==
  [][\A w \in Slots :
       (/\ workers[w].pc = "advance" /\ workers'[w].pc = "saveJob"
        /\ job.scheduleType = "recurring"
        /\ \/ job.endAt # NULL /\ job.endAt <= now
           \/ /\ job.maxExecutions # NULL
              /\ workers[w].job.totalExecutions + 1 >= job.maxExecutions)
       => job'.status = "completed"]_vars

\* C22: a recurring job stops firing at its end condition: total_executions
\* never exceeds max_executions, and once the job is completed its
\* repeatable registration materializes no further attempt.
C22_StopsFiringAtEndCondition ==
  [][/\ (job'.scheduleType = "recurring" /\ job'.maxExecutions # NULL)
        => job'.totalExecutions <= job'.maxExecutions
     /\ (job.scheduleType = "recurring" /\ job.status = "completed")
        => Len(executions') = Len(executions)]_vars

\* C23: when the last attempt of a fire of a recurring job fails (the
\* envelope is not retried), the job is not transitioned to failed and, if
\* it is active, its next_execution_at has been recomputed from the clock.
C23_RecurringSurvivesFailedFire ==
  [][\A w \in Slots :
       (/\ workers[w].pc = "fail" /\ workers'[w].pc = "idle"
        /\ workers[w].queue = "scheduled" \/ jobQueue'.state = "failed"
        /\ job.exists /\ job.scheduleType = "recurring")
       => /\ job'.status # "failed"
          /\ job'.status = "active"
               => job'.nextExecutionAt = FirstMatchAfter(job'.cronExpression, now)]_vars

\* C24: the Executions of a job form a linked retry chain: an Execution with
\* attempt > 1 is a retry whose previous_execution_id names an earlier
\* Execution with attempt - 1 (so following the links never cycles), and a
\* chain head (attempt 1) is no retry and has a null previous_execution_id.
C24_LinkedRetryChain ==
  \A i \in DOMAIN executions :
    LET e == executions[i]
    IN IF e.attempt > 1
       THEN /\ e.isRetry
            /\ e.previousExecutionId \in 1..(i - 1)
            /\ executions[e.previousExecutionId].attempt = e.attempt - 1
       ELSE ~e.isRetry /\ e.previousExecutionId = NULL

\* C25: the delay before retry number k (set when attempt k has failed) is
\* computed from the job's own fields: retry_delay * 2^(k-1) when its
\* retry_backoff is exponential, exactly retry_delay when it is fixed.
C25_RetryDelayFromJobFields ==
  [][(jobQueue.state = "active" /\ jobQueue'.state = "delayed")
     => jobQueue'.delay =
          job.retryDelay * (IF job.retryBackoff = "exponential"
                            THEN Pow2(jobQueue'.attemptsMade - 1) ELSE 1)]_vars

C27_OverdueAttemptIsTimeout ==
  [][\A w \in Slots :
       (/\ workers[w].overdue /\ workers[w].execution # 0
        /\ executions[workers[w].execution].status = "running"
        /\ executions'[workers[w].execution].status # "running")
       => executions'[workers[w].execution].status = "timeout"]_vars

\* C28: when the first attempt of an immediate or scheduled job succeeds,
\* then at the return of processJob there is exactly one Execution, with
\* status completed, attempt 1 and is_retry false, the job's status is
\* completed, and successful_executions = total_executions = 1 with
\* failed_executions = 0.
C28_FirstAttemptSuccess ==
  [][\A w \in Slots :
       (/\ workers[w].pc = "complete" /\ workers'[w].pc = "idle"
        /\ job.scheduleType \in {"immediate", "scheduled"}
        /\ workers[w].attemptsMade = 0
        /\ Len(executions) = 1)
       => /\ Len(executions') = 1
          /\ executions'[1].status = "completed"
          /\ executions'[1].attempt = 1
          /\ ~executions'[1].isRetry
          /\ job'.status = "completed"
          /\ job'.totalExecutions = 1
          /\ job'.successfulExecutions = 1
          /\ job'.failedExecutions = 0]_vars

C28_Witness ==
  /\ Idle
  /\ job.scheduleType = "scheduled" /\ job.status = "completed"
  /\ Len(executions) = 1 /\ executions[1].status = "completed"
  /\ jobQueue.state = "completed" /\ jobQueue.attemptsMade = 1
  /\ job.successfulExecutions = 1

\* C29: notification is best-effort: whatever the notifier does (sent,
\* failed, skipped), the step that notifies leaves the Execution rows and
\* the queue alone, writes the job row the attempt's outcome prescribes and
\* goes on to the same return, from which the queue takes its usual retry
\* decision.
C29_NotificationBestEffort ==
  [][\A w \in Slots :
       /\ (workers[w].pc = "saveJob" /\ workers'[w].pc # "saveJob")
            => /\ workers'[w].pc = "complete"
               /\ job' = SaveSuccess(job, workers[w].job)
               /\ UNCHANGED <<executions, jobQueue, repeatables>>
       /\ (workers[w].pc = "catchSaveJob" /\ workers'[w].pc # "catchSaveJob")
            => /\ workers'[w].pc = "fail"
               /\ job' = SaveFailure(job, workers[w].job,
                            isLastAttempt(workers[w].attemptsMade, workers[w].data))
               /\ UNCHANGED <<executions, jobQueue, repeatables>>
       /\ (workers[w].pc = "fail" /\ workers'[w].pc = "idle"
           /\ workers[w].queue = "jobs")
            => jobQueue' = moveToFailed(jobQueue)]_vars

C29_Witness ==
  \E w \in Slots :
    /\ workers[w].notify = "failed"
    /\ workers[w].pc = "fail"
    /\ workers[w].saves = <<"failure">>
    /\ job.failedExecutions = 1
    /\ executions[workers[w].execution].status = "failed"

\* C30: when an entry of chronos-jobs is delivered although the Execution
\* of that attempt is already terminal (a redelivery after a stall or a
\* crash), the delivery is a no-op: no Execution row is added, the executor
\* is not about to be invoked and the job row is unchanged.
C30_RedeliveryIsNoOp ==
  [][(/\ jobQueue.state = "waiting" /\ jobQueue'.state = "active"
      /\ \E i \in DOMAIN executions :
           /\ executions[i].queue = "jobs"
           /\ executions[i].attempt = jobQueue.attemptsMade + 1
           /\ executions[i].status \in ExecutionTerminal)
     => /\ executions' = executions
        /\ \A w \in Slots : workers'[w].pc # "execute"
        /\ job' = job]_vars

\* C31: within one retry chain of chronos-jobs, the retry is made available
\* only when the Execution of the attempt that failed has been written with
\* a terminal status, and no two Executions of the chain are running at
\* once, also when a store operation of the failure path throws.
C31_RetryAfterTerminalWrite ==
  [][/\ \A w \in Slots :
          (/\ workers[w].pc = "fail" /\ workers'[w].pc = "idle"
           /\ workers[w].queue = "jobs" /\ workers[w].execution # 0
           /\ jobQueue'.state = "delayed")
          => executions[workers[w].execution].status \in ExecutionTerminal
     /\ Cardinality({i \in DOMAIN executions' :
                      /\ executions'[i].queue = "jobs"
                      /\ executions'[i].status = "running"}) <= 1]_vars

Counters(j) == <<j.totalExecutions, j.successfulExecutions, j.failedExecutions>>

\* C32: the counters of the job row change only in the job.save() of a
\* worker's finalization; no request of the planner (create after the
\* initial zeroes, trigger, pause, resume, reschedule, cancel, update) and
\* no post-attempt advance changes them, whatever the workers are doing.
C32_OnlyFinalizeWritesCounters ==
  [][/\ Counters(job') # Counters(job)
        => /\ reply' = NoReply
           /\ \E w \in Slots : /\ workers[w].pc \in {"saveJob", "catchSaveJob"}
                                /\ workers'[w].pc # workers[w].pc
     /\ (reply'.op = "create" /\ reply'.statusCode = 201)
        => Counters(job') = <<0, 0, 0>>]_vars

C32_Witness ==
  /\ reply = Reply("update", 200, "Job updated")
  /\ job.totalExecutions = 1
  /\ \E w \in Slots : workers[w].pc = "saveJob" /\ workers[w].job.totalExecutions = 1

\* C33: in one worker process the attempts in flight, from every queue the
\* process consumes taken together, never exceed the concurrency bound.
C33_ProcessConcurrencyBound ==
  Cardinality({w \in Slots : workers[w].pc # "idle"}) <= MaxPerWorker

\* C34: once the worker process has received SIGTERM or SIGINT it pops no
\* further envelope: no Execution is opened after the signal.
C34_NoPopAfterSignal ==
  [][process # "running" => Len(executions') = Len(executions)]_vars

\* C35: immediately after every successful schedule advance of a recurring
\* job (create, resume, reschedule to a calendar expression, post-attempt
\* advance) the job is completed or its next_execution_at is strictly after
\* the instant of the advance.
C35_AdvanceIsStrictlyAhead ==
  [][(/\ job'.scheduleType = "recurring"
      /\ \/ reply'.op \in {"create", "resume", "reschedule"}
            /\ reply'.statusCode \in {200, 201}
         \/ \E w \in Slots : /\ workers[w].pc = "advance"
                              /\ workers'[w].pc = "saveJob")
     => job'.status = "completed" \/ job'.nextExecutionAt > now]_vars

C35_Witness ==
  /\ now = 1
  /\ job.scheduleType = "recurring" /\ job.cronExpression = "*/2"
  /\ job.status = "active" /\ job.nextExecutionAt = 2
  /\ \E w \in Slots : workers[w].pc = "saveJob"

\* C36: paginate(array, page, limit) returns in data exactly the elements at
\* the 0-based positions (page-1)*limit .. page*limit-1 that exist, in
\* order, with total = the array's length, page = page and pages = the
\* least k with k * limit >= length, for page >= 1 and limit >= 1.
C36_PaginateReturnsThePage ==
  (call.fn = "paginate" /\ call.returned)
  => LET a == call.array
         first == (call.page - 1) * call.limit
         n == Cardinality({k \in first..(call.page * call.limit - 1) : k < Len(a)})
         r == call.result
     IN /\ Len(r.data) = n
        /\ \A i \in 1..n : r.data[i] = a[first + i]
        /\ r.pagination.total = Len(a)
        /\ r.pagination.page = call.page
        /\ r.pagination.pages * call.limit >= Len(a)
        /\ (r.pagination.pages - 1) * call.limit < Len(a)

C36_Witness ==
  /\ call.fn = "paginate" /\ call.returned
  /\ call.array = <<1, 2, 1>> /\ call.page = 2 /\ call.limit = 2
  /\ call.result.data = <<1>>
  /\ call.result.pagination.pages = 2

\* C37: no Execution is started for a job whose status is completed, failed
\* or cancelled.
C37_NoExecutionForTerminalJob ==
  [][(job.exists /\ job.status \in TerminalStatuses)
     => Len(executions') = Len(executions)]_vars

\* C38: a resume that fails while registering with the queue leaves the
\* stored status paused.
C38_FailedResumeStaysPaused ==
  [][(reply'.op = "resume" /\ reply'.statusCode >= 400 /\ job.status = "paused")
     => job'.status = "paused"]_vars

\* C39: a reschedule rejected because its calendar expression is invalid
\* (the queue entry not being held by a worker, whose removal would fail
\* first) leaves the job's registrations and its row exactly as they were.
C39_InvalidCronChangesNothing ==
  [][(reply'.op = "reschedule" /\ ~CancelThrows(jobQueue))
     => (reply'.statusCode >= 400 /\ UNCHANGED <<job, jobQueue, repeatables>>)]_vars

\* C40: retryWithBackoff calls fn at most maxRetries times and never again
\* after a call that succeeded; it returns the value of that first successful
\* call; the k-th sleep lasts baseDelay * 2^(k-1) (exponential) or baseDelay
\* (fixed) and is always followed by another call, so a finished call has
\* slept once fewer than it called fn; and when all maxRetries >= 1 calls
\* failed it throws the error of the last of them.
C40_RetryWithBackoff ==
  LET n == Len(call.calls)
      done == call.pc \in {"returned", "thrown"}
  IN  /\ n <= call.maxRetries
      /\ \A i \in 1..(n - 1) : call.calls[i] = "thrown"
      /\ call.pc = "returned" => (call.calls[n] = "returned" /\ call.result = n)
      /\ \A k \in DOMAIN call.sleeps :
            call.sleeps[k] = IF call.backoffType = "exponential"
                             THEN call.baseDelay * (2 ^ (k - 1))
                             ELSE call.baseDelay
      /\ Len(call.sleeps) <= n
      /\ (done /\ n >= 1) => Len(call.sleeps) = n - 1
      /\ (call.pc = "thrown" /\ call.maxRetries >= 1)
            => (n = call.maxRetries /\ call.calls[n] = "thrown" /\ call.result = n)
      /\ (call.pc = "thrown") <=> (done /\ \A i \in 1..n : call.calls[i] = "thrown")

\* Two failed calls, two sleeps of growing length, then the call that succeeds.
C40_Witness ==
  /\ call.fn = "retryWithBackoff"
  /\ call.pc = "returned"
  /\ call.backoffType = "exponential"
  /\ Len(call.calls) = 3
  /\ Len(call.sleeps) = 2

====
